---- MODULE Spec2Model ----
(***************************************************************************)
(* A model of the LUT conversion tools of film_sims:                       *)
(*   tools/extract_leica_lux_luts.py  raw half-float RGBA dump -> CUBE     *)
(*   tools/convert_luts.py            CUBE text -> .MS-LUT binary          *)
(***************************************************************************)
EXTENDS Integers, Sequences, FiniteSets, TLC

VARIABLES
    \* float16_to_float32, one call
    h16, f32, f32b, hpc,
    \* extract_leica_lux_luts.main: the .data files found, the loop position,
    \* what the last read_leica_lut call returned, the CUBE files written
    data_files, ri, ret, cube_out, rpc,
    \* convert_cube_to_bin, one call: the .cube file given and the outcome
    cube_in, conv, cpc,
    \* convert_luts.main: the .cube files found, the loop position, the tally,
    \* the .bin files written so far, the final report
    cube_files, mi, success_count, bin_files, report, mpc

halfVars == <<h16, f32, f32b, hpc>>
rawVars == <<data_files, ri, ret, cube_out, rpc>>
cubeVars == <<cube_in, conv, cpc>>
mainVars == <<cube_files, mi, success_count, bin_files, report, mpc>>
vars == <<halfVars, rawVars, cubeVars, mainVars>>

----------------------------------------------------------------------------
(* Floating-point values.  A Python float is modelled as a record           *)
(*   [k |-> "fin", s, m, e]   the value (-1)^s * m * 2^e  (m = 0: signed 0) *)
(*   [k |-> "inf", s, ...]    signed infinity                               *)
(*   [k |-> "nan", ...]       not-a-number                                  *)
(* Finite values are kept normalised (m odd, or m = 0 and e = 0), so that   *)
(* two records are equal exactly when the floats have the same bits' value  *)
(* and the same sign of zero.  Every finite value the tools compute has a   *)
(* mantissa of at most 24 bits, so the double arithmetic of the source is   *)
(* exact on them.                                                           *)

RECURSIVE Pow2(_)
Pow2(n) == IF n <= 0 THEN 1 ELSE 2 * Pow2(n - 1)

RECURSIVE NormME(_, _)
NormME(m, e) ==
    IF m = 0 THEN <<0, 0>>
    ELSE IF m % 2 = 0 THEN NormME(m \div 2, e + 1)
    ELSE <<m, e>>

Fin(s, m, e) ==
    LET n == NormME(m, e) IN [k |-> "fin", s |-> s, m |-> n[1], e |-> n[2]]

Inf(s) == [k |-> "inf", s |-> s, m |-> 0, e |-> 0]
NaN == [k |-> "nan", s |-> 0, m |-> 0, e |-> 0]

PosZero == Fin(0, 0, 0)
NegZero == Fin(1, 0, 0)
FOne == Fin(0, 1, 0)

\* float(n) for a Python int n
FromInt(n) == IF n < 0 THEN Fin(1, -n, 0) ELSE Fin(0, n, 0)

\* -f
FNeg(f) == IF f.k = "nan" THEN f ELSE [f EXCEPT !.s = 1 - f.s]

\* 2 ** n for a Python int n (a float when n < 0, an int used as a float
\* otherwise)
FPow2(n) == Fin(0, 1, n)

\* a * b on finite values
FMul(a, b) == Fin((a.s + b.s) % 2, a.m * b.m, a.e + b.e)

\* a / b on finite values, b a power of two (the only divisor the tools use)
FDiv(a, b) == Fin((a.s + b.s) % 2, a.m, a.e - b.e)

\* a + b on finite values of the same sign
FAdd(a, b) ==
    LET lo == IF a.e <= b.e THEN a.e ELSE b.e
    IN  Fin(a.s, a.m * Pow2(a.e - lo) + b.m * Pow2(b.e - lo), lo)

\* |a| < |b| on finite values; a shift of more than 24 bits decides by itself
\* because mantissas have at most 24 bits
MagLt(a, b) ==
    IF a.m = 0 THEN b.m # 0
    ELSE IF b.m = 0 THEN FALSE
    ELSE IF a.e <= b.e
         THEN (b.e - a.e > 24) \/ (a.m < b.m * Pow2(b.e - a.e))
         ELSE (a.e - b.e <= 24) /\ (a.m * Pow2(a.e - b.e) < b.m)

\* a < b as Python compares floats: false when either is NaN, -0.0 == 0.0
FLt(a, b) ==
    IF a.k = "nan" \/ b.k = "nan" THEN FALSE
    ELSE IF a.k = "inf" THEN a.s = 1 /\ ~(b.k = "inf" /\ b.s = 1)
    ELSE IF b.k = "inf" THEN b.s = 0
    ELSE IF a.m = 0 /\ b.m = 0 THEN FALSE
    ELSE IF a.s # b.s THEN a.s = 1
    ELSE IF a.s = 0 THEN MagLt(a, b) ELSE MagLt(b, a)

\* min(a, b) and max(a, b) of Python: the first argument unless the second
\* is strictly smaller (greater)
PyMin(a, b) == IF FLt(b, a) THEN b ELSE a
PyMax(a, b) == IF FLt(a, b) THEN b ELSE a

----------------------------------------------------------------------------
(* extract_leica_lux_luts.py: float16_to_float32                            *)

\* the decoder with an exponent bias of 14 in the normal branch
float16_to_float32_bias14(x) ==
    LET sign == (x \div 32768) % 2
        exp  == (x \div 1024) % 32
        mant == x % 1024
    IN  IF exp = 0
        THEN IF mant = 0
             THEN (IF sign # 0 THEN NegZero ELSE PosZero)
             ELSE LET f == FMul(FDiv(FromInt(mant), FromInt(1024)), FPow2(-14))
                  IN  IF sign # 0 THEN FNeg(f) ELSE f
        ELSE IF exp = 31
        THEN (IF sign # 0 THEN Inf(1) ELSE Inf(0))
        ELSE LET f == FMul(FAdd(FromInt(1), FDiv(FromInt(mant), FromInt(1024))),
                           FPow2(exp - 14))
             IN  IF sign # 0 THEN FNeg(f) ELSE f

\* float16_to_float32(h16)
float16_to_float32(x) ==
    LET sign == (x \div 32768) % 2
        exp  == (x \div 1024) % 32
        mant == x % 1024
    IN  IF exp = 0
        THEN IF mant = 0
             THEN (IF sign # 0 THEN NegZero ELSE PosZero)
             ELSE LET f == FMul(FDiv(FromInt(mant), FromInt(1024)), FPow2(-14))
                  IN  IF sign # 0 THEN FNeg(f) ELSE f
        ELSE IF exp = 31
        THEN (IF sign # 0 THEN Inf(1) ELSE Inf(0))
        ELSE LET f == FMul(FAdd(FromInt(1), FDiv(FromInt(mant), FromInt(1024))),
                           FPow2(exp - 15))
             IN  IF sign # 0 THEN FNeg(f) ELSE f

NoFloat == [k |-> "none", s |-> 0, m |-> 0, e |-> 0]

\* one call of float16_to_float32 on the 16-bit pattern h16
Decode ==
    /\ hpc = "call"
    /\ f32' = float16_to_float32(h16)
    /\ hpc' = "ret"
    /\ UNCHANGED <<h16, f32b>>
    /\ UNCHANGED <<rawVars, cubeVars, mainVars>>

\* the same call made again on the same pattern (the function keeps no state)
DecodeAgain ==
    /\ hpc = "ret"
    /\ f32b' = float16_to_float32(h16)
    /\ hpc' = "ret2"
    /\ UNCHANGED <<h16, f32>>
    /\ UNCHANGED <<rawVars, cubeVars, mainVars>>

----------------------------------------------------------------------------
(* extract_leica_lux_luts.py: read_leica_lut, write_cube_file, main         *)

\* Edge length of the raw LUT.  The source fixes lut_size = 64 (262144
\* pixels of 8 bytes); the model keeps the code and scales the cube down.
lut_size == 2

total_pixels == lut_size * lut_size * lut_size

\* struct.unpack('<H', b)[0] on a 2-byte slice
unpack_H(b) == b[1] + 256 * b[2]

\* data[lo:hi] of Python on a byte sequence (0-based, hi exclusive, clipped)
Slice(data, lo, hi) ==
    LET h == IF hi > Len(data) THEN Len(data) ELSE hi
    IN  IF lo >= h THEN <<>> ELSE SubSeq(data, lo + 1, h)

\* the loop of read_leica_lut from pixel i on, rgba_values so far in acc
RECURSIVE read_loop(_, _, _)
read_loop(data, i, acc) ==
    IF i >= total_pixels THEN acc
    ELSE LET offset == i * 8 IN
         IF offset + 8 > Len(data) THEN acc
         ELSE LET pixel_data == Slice(data, offset, offset + 8)
                  r_h == unpack_H(Slice(pixel_data, 0, 2))
                  g_h == unpack_H(Slice(pixel_data, 2, 4))
                  b_h == unpack_H(Slice(pixel_data, 4, 6))
                  a_h == unpack_H(Slice(pixel_data, 6, 8))
              IN  read_loop(data, i + 1,
                      Append(acc, << float16_to_float32(r_h),
                                     float16_to_float32(g_h),
                                     float16_to_float32(b_h),
                                     float16_to_float32(a_h) >>))

\* read_leica_lut(filepath) on the bytes of the file: the returned tuple
\* (rgba_values, lut_size)
read_leica_lut(data) == << read_loop(data, 0, <<>>), lut_size >>

\* f"{x:.6f}": the sign and the value in millionths, rounded half to even on
\* the exact binary value
Format6(x) ==
    IF x.k = "nan" THEN [txt |-> "nan", neg |-> FALSE, micro |-> 0]
    ELSE IF x.k = "inf" THEN [txt |-> "inf", neg |-> (x.s = 1), micro |-> 0]
    ELSE LET num == x.m * 15625
             sh  == x.e + 6
             d   == Pow2(-sh)
             q   == num \div d
             r   == num % d
             up  == (2 * r > d) \/ (2 * r = d /\ q % 2 = 1)
         IN  [txt |-> "fixed", neg |-> (x.s = 1),
              micro |-> IF sh >= 0 THEN num * Pow2(sh)
                        ELSE IF up THEN q + 1 ELSE q]

\* the clamp without its lower bound
clamp_nomax(x) == PyMin(FOne, x)

\* max(0.0, min(1.0, x))
clamp(x) == PyMax(PosZero, PyMin(FOne, x))

\* the data line write_cube_file writes for one (r, g, b, a)
data_line(px) ==
    [kind |-> "data",
     c |-> << Format6(clamp(px[1])), Format6(clamp(px[2])), Format6(clamp(px[3])) >>]

\* the lines write_cube_file writes
write_cube_file(rgba_values, size, title) ==
    << [kind |-> "TITLE", title |-> title],
       [kind |-> "comment"],
       [kind |-> "LUT_3D_SIZE", n |-> size] >>
    \o [i \in 1..Len(rgba_values) |-> data_line(rgba_values[i])]

\* str.replace('_', ' ') on a sequence of characters
replace_underscore(s) == [i \in 1..Len(s) |-> IF s[i] = "_" THEN " " ELSE s[i]]

\* 16-bit patterns the buffers are filled with, repeated cyclically:
\* 0.5, -1.0, 2.0, -0.0, +inf, -inf, 2^-24, 2^-7, 1.0, 0x7E00, 0.0, 1/3-ish
MixedPattern == << 14336, 48128, 16384, 32768, 31744, 64512, 1, 8192, 15360,
                   32256, 0, 13653, 47104 >>
UnitPattern == << 0, 14336, 15360, 15360 >>
Patterns == { MixedPattern, UnitPattern }

\* a buffer of len bytes holding pat, little-endian, repeated
Buffer(pat, len) ==
    [i \in 1..len |->
        LET b == i - 1
            h == pat[((b \div 2) % Len(pat)) + 1]
        IN  IF b % 2 = 0 THEN h % 256 ELSE h \div 256]

FullLen == 8 * total_pixels

BufferLens ==
    { 0, 7, 8, 8 * (total_pixels \div 2) + 3,
      FullLen - 8, FullLen - 1, FullLen, FullLen + 1, FullLen + 8 }

Stem == << "m", "_", "1" >>

RawFiles ==
    { [readable |-> TRUE, stem |-> Stem, data |-> Buffer(p, n)] :
          p \in Patterns, n \in BufferLens }
    \cup { [readable |-> FALSE, stem |-> Stem, data |-> <<>>] }

\* at most this many .data files are found in the input directory
MaxRawFiles == 2

NoRet == [status |-> "none", value |-> <<>>]

\* one iteration of main's loop, the file opens: read_leica_lut, then
\* write_cube_file
ProcessRead ==
    /\ rpc = "loop"
    /\ ri <= Len(data_files)
    /\ data_files[ri].readable
    /\ \E got \in { read_leica_lut(data_files[ri].data) } :
           LET title == replace_underscore(data_files[ri].stem)
           IN  /\ ret' = [status |-> "returned", value |-> got]
               /\ cube_out' = Append(cube_out,
                      [input |-> ri,
                       lines |-> write_cube_file(got[1], got[2], title)])
    /\ ri' = ri + 1
    /\ UNCHANGED <<data_files, rpc>>
    /\ UNCHANGED <<halfVars, cubeVars, mainVars>>

\* one iteration of main's loop, open() raises: the except clause reports the
\* error and the loop goes on
ProcessError ==
    /\ rpc = "loop"
    /\ ri <= Len(data_files)
    /\ ~data_files[ri].readable
    /\ ret' = [status |-> "raised", value |-> <<>>]
    /\ ri' = ri + 1
    /\ UNCHANGED <<data_files, cube_out, rpc>>
    /\ UNCHANGED <<halfVars, cubeVars, mainVars>>

\* the loop is over
RawDone ==
    /\ rpc = "loop"
    /\ ri > Len(data_files)
    /\ rpc' = "done"
    /\ UNCHANGED <<data_files, ri, ret, cube_out>>
    /\ UNCHANGED <<halfVars, cubeVars, mainVars>>

RawNext == ProcessRead \/ ProcessError \/ RawDone

----------------------------------------------------------------------------
(* convert_luts.py: the CUBE parser of convert_cube_to_bin                  *)
(* A text is the sequence of its lines, a line a sequence of characters.    *)

IsSpace(c) == c \in {" ", "\t", "\n"}

Digits == << "0", "1", "2", "3", "4", "5", "6", "7", "8", "9" >>
IsDigit(c) == \E i \in 1..10 : Digits[i] = c
DigitVal(c) == (CHOOSE i \in 1..10 : Digits[i] = c) - 1

\* str.strip()
RECURSIVE lstrip(_)
lstrip(s) == IF s # <<>> /\ IsSpace(Head(s)) THEN lstrip(Tail(s)) ELSE s
RECURSIVE rstrip(_)
rstrip(s) ==
    IF s # <<>> /\ IsSpace(s[Len(s)]) THEN rstrip(SubSeq(s, 1, Len(s) - 1)) ELSE s
strip(s) == rstrip(lstrip(s))

\* str.startswith(prefix)
startswith(s, prefix) ==
    Len(s) >= Len(prefix) /\ SubSeq(s, 1, Len(prefix)) = prefix

\* str.split(): the maximal runs of non-space characters; cur is the run being
\* read
RECURSIVE split_from(_, _, _, _)
split_from(s, i, cur, acc) ==
    IF i > Len(s) THEN (IF cur = <<>> THEN acc ELSE Append(acc, cur))
    ELSE IF IsSpace(s[i])
         THEN split_from(s, i + 1, <<>>, IF cur = <<>> THEN acc ELSE Append(acc, cur))
         ELSE split_from(s, i + 1, Append(cur, s[i]), acc)
split(s) == split_from(s, 1, <<>>, <<>>)

AllDigits(s) == s # <<>> /\ \A i \in 1..Len(s) : IsDigit(s[i])

RECURSIVE DigitsVal(_)
DigitsVal(s) ==
    IF s = <<>> THEN 0 ELSE 10 * DigitsVal(SubSeq(s, 1, Len(s) - 1)) + DigitVal(s[Len(s)])

HasSign(tok) == tok # <<>> /\ Head(tok) \in {"+", "-"}
Unsigned(tok) == IF HasSign(tok) THEN Tail(tok) ELSE tok
SignBit(tok) == IF tok # <<>> /\ Head(tok) = "-" THEN 1 ELSE 0

\* int(tok): an optional sign and decimal digits, ValueError (ok = FALSE)
\* otherwise
py_int(tok) ==
    LET body == Unsigned(tok)
    IN  IF AllDigits(body)
        THEN [ok |-> TRUE,
              v |-> IF SignBit(tok) = 1 THEN -DigitsVal(body) ELSE DigitsVal(body)]
        ELSE [ok |-> FALSE, v |-> 0]

RECURSIVE Pow5(_)
Pow5(n) == IF n <= 0 THEN 1 ELSE 5 * Pow5(n - 1)

\* the position of the first "." of s, 0 when there is none
DotAt(s) ==
    IF \E i \in 1..Len(s) : s[i] = "."
    THEN CHOOSE i \in 1..Len(s) : s[i] = "." /\ \A j \in 1..(i - 1) : s[j] # "."
    ELSE 0

\* float(tok) on the decimal literals [sign] digits [. [digits]] and
\* [sign] . digits; ValueError (ok = FALSE) otherwise.  The literal n / 10^d is
\* the float n / 5^d * 2^-d; the inputs of the model are literals for which
\* this is exact (5^d divides n), as 0.5, 0.25, 1.5 are.
py_float(tok) ==
    LET body == Unsigned(tok)
        dot  == DotAt(body)
        ip   == IF dot = 0 THEN body ELSE SubSeq(body, 1, dot - 1)
        fp   == IF dot = 0 THEN <<>> ELSE SubSeq(body, dot + 1, Len(body))
        wellformed ==
            /\ ip \o fp # <<>>
            /\ \A i \in 1..Len(ip) : IsDigit(ip[i])
            /\ \A i \in 1..Len(fp) : IsDigit(fp[i])
        n == DigitsVal(ip \o fp)
        d == Len(fp)
    IN  IF wellformed
        THEN [ok |-> TRUE, v |-> Fin(SignBit(tok), n \div Pow5(d), -d)]
        ELSE [ok |-> FALSE, v |-> NaN]

kwComment == << "#" >>
kwTITLE == << "T", "I", "T", "L", "E" >>
kwDOMAIN == << "D", "O", "M", "A", "I", "N", "_" >>
kwLUT_3D_SIZE == << "L", "U", "T", "_", "3", "D", "_", "S", "I", "Z", "E" >>

\* the body of the parser's loop on one line; st holds size, data_lines and
\* whether int() raised ValueError
parse_line(raw, st) ==
    LET line == strip(raw) IN
    IF line = <<>> \/ startswith(line, kwComment) \/ startswith(line, kwTITLE)
       \/ startswith(line, kwDOMAIN)
    THEN st
    ELSE IF startswith(line, kwLUT_3D_SIZE)
    THEN LET parts == split(line) IN
         IF Len(parts) >= 2
         THEN LET v == py_int(parts[2]) IN
              IF v.ok THEN [st EXCEPT !.size = v.v] ELSE [st EXCEPT !.raised = TRUE]
         ELSE st
    ELSE LET parts == split(line) IN
         IF Len(parts) = 3
         THEN LET r == py_float(parts[1])
                  g == py_float(parts[2])
                  b == py_float(parts[3])
              IN  IF r.ok /\ g.ok /\ b.ok
                  THEN [st EXCEPT !.data_lines = Append(@, << r.v, g.v, b.v >>)]
                  ELSE st
         ELSE st

RECURSIVE parse_lines(_, _, _)
parse_lines(lines, i, st) ==
    IF i > Len(lines) \/ st.raised THEN st
    ELSE parse_lines(lines, i + 1, parse_line(lines[i], st))

\* round(n ** (1/3.0)): the integer nearest to the cube root of n.  The cube
\* root of an integer is never half way between two integers ((2c+1)^3 is odd,
\* 8n is even), and the float error is far below the distance to the half.
RECURSIVE round_cbrt_from(_, _)
round_cbrt_from(n, c) ==
    IF 8 * n < (2 * c + 1) * (2 * c + 1) * (2 * c + 1) THEN c
    ELSE round_cbrt_from(n, c + 1)

\* a truncated root, where an exact cube's root lands just below the integer
RECURSIVE trunc_cbrt_from(_, _)
trunc_cbrt_from(n, c) ==
    IF n <= (c + 1) * (c + 1) * (c + 1) THEN c ELSE trunc_cbrt_from(n, c + 1)
calculated_size_trunc(n) == trunc_cbrt_from(n, 0)

\* calculated_size = round(len(data_lines) ** (1/3.0))
calculated_size(n) == round_cbrt_from(n, 0)

----------------------------------------------------------------------------
(* convert_luts.py: the binary writer of convert_cube_to_bin                *)

Zeros(n) == [i \in 1..n |-> 0]

\* struct.pack('<I', n), struct.pack('<Q', n), struct.pack('B', n) for
\* 0 <= n < 2^31
pack_I(n) ==
    << n % 256, (n \div 256) % 256, (n \div 65536) % 256, (n \div 16777216) % 256 >>
pack_Q(n) == pack_I(n) \o Zeros(4)
pack_B(n) == << n >>

RECURSIVE BitLen(_)
BitLen(m) == IF m = 0 THEN 0 ELSE 1 + BitLen(m \div 2)

\* struct.pack('<f', x): the IEEE-754 single of x, least significant byte
\* first; biased is the exponent field and frac the 23-bit fraction
f32_bytes(s, biased, frac) ==
    << frac % 256, (frac \div 256) % 256,
       (biased % 2) * 128 + frac \div 65536,
       s * 128 + biased \div 2 >>

pack_f(x) ==
    IF x.k = "nan" THEN f32_bytes(0, 255, 4194304)
    ELSE IF x.k = "inf" THEN f32_bytes(x.s, 255, 0)
    ELSE IF x.m = 0 THEN f32_bytes(x.s, 0, 0)
    ELSE LET nb == BitLen(x.m)
             ex == x.e + nb - 1
         IN  IF ex >= -126
             THEN f32_bytes(x.s, ex + 127, (x.m - Pow2(nb - 1)) * Pow2(24 - nb))
             ELSE f32_bytes(x.s, 0, x.m * Pow2(x.e + 149))

\* struct.pack('<fff', r, g, b)
pack_fff(t) == pack_f(t[1]) \o pack_f(t[2]) \o pack_f(t[3])

RECURSIVE write_data(_, _)
write_data(data_lines, i) ==
    IF i > Len(data_lines) THEN <<>>
    ELSE pack_fff(data_lines[i]) \o write_data(data_lines, i + 1)

magic == << 46, 77, 83, 45, 76, 85, 84, 32 >>

\* the writer with the second padding left out: the data follows the offset
\* field directly
write_bin_nopad(size, data_lines) ==
    LET h1 == magic \o pack_I(1) \o pack_I(size) \o pack_B(3)
        h2 == h1 \o Zeros(40 - Len(h1))
        h3 == h2 \o pack_Q(64)
    IN  h3 \o write_data(data_lines, 1)

\* the bytes written to the .bin file; f.tell() is the length written so far
write_bin(size, data_lines) ==
    LET h1 == magic \o pack_I(1) \o pack_I(size) \o pack_B(3)
        h2 == h1 \o Zeros(40 - Len(h1))
        data_offset == 64
        h3 == h2 \o pack_Q(data_offset)
        current_pos == Len(h3)
        h4 == IF current_pos < data_offset
              THEN h3 \o Zeros(data_offset - current_pos) ELSE h3
    IN  h4 \o write_data(data_lines, 1)

----------------------------------------------------------------------------
(* convert_luts.py: convert_cube_to_bin                                     *)
(* A .cube file is [readable, writable, text]: whether open(cube_path)      *)
(* succeeds, whether open(bin_path, 'wb') succeeds, and the lines.  The     *)
(* outcome is "True" or "False" (the value returned) or "raise" (an         *)
(* exception leaves the function); err names the error printed or raised.   *)

Outcome(o, err, st, size, blob) ==
    [outcome |-> o, err |-> err, size |-> size, data_lines |-> st.data_lines,
     count |-> Len(st.data_lines), written |-> (o = "True"), blob |-> blob]

ParseStart == [size |-> -1, data_lines |-> <<>>, raised |-> FALSE]

\* the function from the end of the parser's loop on, st the parser's state
convert_parsed(file, st) ==
    LET n  == Len(st.data_lines)
        c  == calculated_size(n)
    IN  IF st.raised THEN Outcome("raise", "ValueError", st, st.size, <<>>)
        ELSE IF st.size = -1 /\ c * c * c # n
        THEN Outcome("False", "undetermined", st, -1, <<>>)
        ELSE
        LET size == IF st.size = -1 THEN c ELSE st.size
            expected_count == size * size * size
        IN  IF n # expected_count THEN Outcome("False", "mismatch", st, size, <<>>)
            ELSE IF ~file.writable THEN Outcome("raise", "OSError", st, size, <<>>)
            ELSE Outcome("True", "none", st, size, write_bin(size, st.data_lines))

\* the whole function: open and read the file, parse its lines, go on with
\* the state the parser ends in
convert_cube_to_bin(file) ==
    IF ~file.readable THEN Outcome("raise", "OSError", ParseStart, -1, <<>>)
    ELSE CHOOSE r \in { convert_parsed(file, st) :
                           st \in { parse_lines(file.text, 1, ParseStart) } } : TRUE

NoFile == [readable |-> FALSE, writable |-> TRUE, text |-> << >>]

NoOutcome ==
    [outcome |-> "none", err |-> "none", size |-> -1, data_lines |-> <<>>,
     count |-> 0, written |-> FALSE, blob |-> <<>>]

\* lines of .cube files
LnComment == << "#", " ", "c" >>
LnTitle == << "T", "I", "T", "L", "E", " ", "t" >>
LnDomain == << "D", "O", "M", "A", "I", "N", "_", "M", "I", "N", " ", "0", " ", "0", " ", "0" >>
LnBlank == << " ", " " >>
LnSize0 == << "L", "U", "T", "_", "3", "D", "_", "S", "I", "Z", "E", " ", "0" >>
LnSize1 == << "L", "U", "T", "_", "3", "D", "_", "S", "I", "Z", "E", " ", "1" >>
LnSize2 == << "L", "U", "T", "_", "3", "D", "_", "S", "I", "Z", "E", " ", "2" >>
LnSize2Padded == << " ", " ", "L", "U", "T", "_", "3", "D", "_", "S", "I", "Z", "E", " ", " ", " ", "2", " " >>
LnSize3 == << "L", "U", "T", "_", "3", "D", "_", "S", "I", "Z", "E", " ", "3" >>
LnSizeMinus1 == << "L", "U", "T", "_", "3", "D", "_", "S", "I", "Z", "E", " ", "-", "1" >>
LnSizeMinus2 == << "L", "U", "T", "_", "3", "D", "_", "S", "I", "Z", "E", " ", "-", "2" >>
LnSizeBare == << "L", "U", "T", "_", "3", "D", "_", "S", "I", "Z", "E" >>
LnSizeWord == << "L", "U", "T", "_", "3", "D", "_", "S", "I", "Z", "E", " ", "x" >>
LnSizeDecimal == << "L", "U", "T", "_", "3", "D", "_", "S", "I", "Z", "E", " ", "2", ".", "0" >>
LnData1 == << "0", " ", "0", " ", "0" >>
LnData2 == << "1", " ", "0", ".", "5", " ", "0", ".", "2", "5" >>
LnData3 == << "-", "0", ".", "5", " ", "2", " ", "1", ".", "5" >>
LnData4 == << " ", "0", ".", "7", "5", " ", " ", "1", ".", "0", " ", " ", " ", "0", " " >>
LnTwoTokens == << "0", " ", "0" >>
LnFourTokens == << "0", " ", "0", " ", "0", " ", "0" >>
LnWords == << "a", " ", "b", " ", "c" >>
LnBadNumber == << "1", " ", "x", " ", "0" >>

Headers ==
    { << >>,
      << LnComment, LnTitle, LnDomain, LnBlank >>,
      << LnSize0 >>, << LnSize1 >>, << LnSize2 >>, << LnTitle, LnSize3 >>,
      << LnSizeMinus1 >>, << LnSizeMinus2 >>,
      << LnSize1, LnSize2Padded >>, << LnSize2, LnSizeBare >>, << LnSizeBare >>,
      << LnSizeWord >>, << LnSizeDecimal >>, << LnSize2, LnSizeWord >> }

DataCycle == << LnData1, LnData2, LnData3, LnData4 >>
Junk == << LnTwoTokens, LnWords, LnFourTokens, LnBadNumber >>

\* k data lines, with lines the parser discards between them when junk holds
Body(k, junk) ==
    LET d == [i \in 1..k |-> DataCycle[((i - 1) % Len(DataCycle)) + 1]]
    IN  IF junk THEN Junk \o d \o << LnComment >> ELSE d

\* at most this many data lines in a .cube file (27 = 3^3 and its neighbours)
MaxData == 28

Texts == { h \o Body(k, j) : h \in Headers, k \in 0..MaxData, j \in BOOLEAN }

CubeFiles ==
    { [readable |-> TRUE, writable |-> w, text |-> t] : w \in BOOLEAN, t \in Texts }
    \cup { [readable |-> FALSE, writable |-> TRUE, text |-> << >>] }

\* one call of convert_cube_to_bin
Convert ==
    /\ cpc = "call"
    /\ conv' = convert_cube_to_bin(cube_in)
    /\ cpc' = "done"
    /\ UNCHANGED cube_in
    /\ UNCHANGED <<halfVars, rawVars, mainVars>>

CubeNext == Convert

----------------------------------------------------------------------------
(* convert_luts.py: main                                                    *)

GoodDeclared == [readable |-> TRUE, writable |-> TRUE, text |-> << LnSize1, LnData2 >>]
GoodInferred == [readable |-> TRUE, writable |-> TRUE, text |-> Body(8, FALSE)]
Mismatch == [readable |-> TRUE, writable |-> TRUE, text |-> << LnSize2, LnData1 >>]
Undetermined == [readable |-> TRUE, writable |-> TRUE, text |-> Body(2, TRUE)]
BadSize == [readable |-> TRUE, writable |-> TRUE, text |-> << LnSizeDecimal, LnData1 >>]
Unreadable == [readable |-> FALSE, writable |-> TRUE, text |-> << >>]
Unwritable == [readable |-> TRUE, writable |-> FALSE, text |-> << LnSize1, LnData2 >>]

BatchFiles ==
    { GoodDeclared, GoodInferred, Mismatch, Undetermined, BadSize, Unreadable, Unwritable }

\* at most this many .cube files are found under base_dir
MaxCubeFiles == 3

NoReport == [printed |-> FALSE, converted |-> 0, found |-> 0]

\* "No .cube files found.": main returns without a tally
MainNoFiles ==
    /\ mpc = "start"
    /\ cube_files = << >>
    /\ mpc' = "empty"
    /\ UNCHANGED <<cube_files, mi, success_count, bin_files, report>>
    /\ UNCHANGED <<halfVars, rawVars, cubeVars>>

\* "Found n .cube files."
MainFound ==
    /\ mpc = "start"
    /\ cube_files # << >>
    /\ mpc' = "loop"
    /\ success_count' = 0
    /\ UNCHANGED <<cube_files, mi, bin_files, report>>
    /\ UNCHANGED <<halfVars, rawVars, cubeVars>>

\* one iteration of the loop, convert_cube_to_bin returns True or False
MainConvertReturns ==
    /\ mpc = "loop"
    /\ mi <= Len(cube_files)
    /\ \E r \in { convert_cube_to_bin(cube_files[mi]) } :
           /\ r.outcome # "raise"
           /\ success_count' = IF r.outcome = "True" THEN success_count + 1
                               ELSE success_count
           /\ bin_files' = IF r.written THEN bin_files \cup {mi} ELSE bin_files
    /\ mi' = mi + 1
    /\ UNCHANGED <<cube_files, report, mpc>>
    /\ UNCHANGED <<halfVars, rawVars, cubeVars>>

\* one iteration of the loop, convert_cube_to_bin raises: nothing in main
\* catches the exception, which ends main
MainConvertRaises ==
    /\ mpc = "loop"
    /\ mi <= Len(cube_files)
    /\ convert_cube_to_bin(cube_files[mi]).outcome = "raise"
    /\ mpc' = "crashed"
    /\ UNCHANGED <<cube_files, mi, success_count, bin_files, report>>
    /\ UNCHANGED <<halfVars, rawVars, cubeVars>>

\* "Done. Converted s/n files."
MainReport ==
    /\ mpc = "loop"
    /\ mi > Len(cube_files)
    /\ report' = [printed |-> TRUE, converted |-> success_count,
                  found |-> Len(cube_files)]
    /\ mpc' = "done"
    /\ UNCHANGED <<cube_files, mi, success_count, bin_files>>
    /\ UNCHANGED <<halfVars, rawVars, cubeVars>>

MainNext ==
    MainNoFiles \/ MainFound \/ MainConvertReturns \/ MainConvertRaises \/ MainReport

----------------------------------------------------------------------------
HalfNext == Decode \/ DecodeAgain

\* one run of float16_to_float32; the other tools are not running
InitHalf ==
    /\ h16 \in 0..65535
    /\ f32 = NoFloat
    /\ f32b = NoFloat
    /\ hpc = "call"
    /\ data_files = <<>>
    /\ ri = 1
    /\ ret = NoRet
    /\ cube_out = <<>>
    /\ rpc = "idle"
    /\ cube_in = NoFile
    /\ conv = NoOutcome
    /\ cpc = "idle"
    /\ cube_files = << >>
    /\ mi = 1
    /\ success_count = 0
    /\ bin_files = {}
    /\ report = NoReport
    /\ mpc = "idle"

SpecHalf == InitHalf /\ [][HalfNext]_vars

\* one run of extract_leica_lux_luts.main; the other tools are not running
InitRaw ==
    /\ h16 = 0
    /\ f32 = NoFloat
    /\ f32b = NoFloat
    /\ hpc = "idle"
    /\ data_files \in UNION { [1..n -> RawFiles] : n \in 0..MaxRawFiles }
    /\ ri = 1
    /\ ret = NoRet
    /\ cube_out = <<>>
    /\ rpc = "loop"
    /\ cube_in = NoFile
    /\ conv = NoOutcome
    /\ cpc = "idle"
    /\ cube_files = << >>
    /\ mi = 1
    /\ success_count = 0
    /\ bin_files = {}
    /\ report = NoReport
    /\ mpc = "idle"

SpecRaw == InitRaw /\ [][RawNext]_vars

\* one run of convert_cube_to_bin; the other tools are not running
InitCube ==
    /\ h16 = 0
    /\ f32 = NoFloat
    /\ f32b = NoFloat
    /\ hpc = "idle"
    /\ data_files = <<>>
    /\ ri = 1
    /\ ret = NoRet
    /\ cube_out = <<>>
    /\ rpc = "idle"
    /\ cube_in \in CubeFiles
    /\ conv = NoOutcome
    /\ cpc = "call"
    /\ cube_files = << >>
    /\ mi = 1
    /\ success_count = 0
    /\ bin_files = {}
    /\ report = NoReport
    /\ mpc = "idle"

SpecCube == InitCube /\ [][CubeNext]_vars

\* one run of convert_luts.main; the other tools are not running
InitMain ==
    /\ h16 = 0
    /\ f32 = NoFloat
    /\ f32b = NoFloat
    /\ hpc = "idle"
    /\ data_files = <<>>
    /\ ri = 1
    /\ ret = NoRet
    /\ cube_out = <<>>
    /\ rpc = "idle"
    /\ cube_in = NoFile
    /\ conv = NoOutcome
    /\ cpc = "idle"
    /\ cube_files \in UNION { [1..n -> BatchFiles] : n \in 0..MaxCubeFiles }
    /\ mi = 1
    /\ success_count = 0
    /\ bin_files = {}
    /\ report = NoReport
    /\ mpc = "start"

SpecMain == InitMain /\ [][MainNext]_vars

----------------------------------------------------------------------------
(* The claims.  Fields of a half-float pattern, as the layout names them.   *)

HalfSign(x) == x \div 32768
HalfExp(x) == (x \div 1024) % 32
HalfMant(x) == x % 1024

Cube(n) == n * n * n

\* C7: a pattern with exponent field 31 and a non-zero mantissa decodes to
\* not-a-number, and an infinity is returned only for exponent 31 with
\* mantissa zero.
C7_NaNForNonZeroMantissa ==
    hpc \in {"ret", "ret2"} =>
        /\ (HalfExp(h16) = 31 /\ HalfMant(h16) # 0) => f32.k = "nan"
        /\ f32.k = "inf" => (HalfExp(h16) = 31 /\ HalfMant(h16) = 0)

\* C8: for exponent below 31 the decoder returns the value of the half-float
\* layout (signed zero, mantissa * 2^-24, (1024 + mantissa) * 2^(exponent-25),
\* with the sign of bit 15); 0x0000, 0x8000, 0x3C00, 0x0001, 0x7C00, 0xFC00
\* give 0.0, -0.0, 1.0, 2^-24, +inf, -inf; every pattern gets a value, the
\* same on a second call.
C8_HalfLayoutValue ==
    hpc \in {"ret", "ret2"} =>
        LET s == HalfSign(h16)
            e == HalfExp(h16)
            m == HalfMant(h16)
        IN  /\ f32.k \in {"fin", "inf", "nan"}
            /\ (e = 0 /\ m = 0) => f32 = [k |-> "fin", s |-> s, m |-> 0, e |-> 0]
            /\ (e = 0 /\ m # 0) => f32 = Fin(s, m, -24)
            /\ (0 < e /\ e < 31) => f32 = Fin(s, 1024 + m, e - 25)
            /\ h16 = 0 => f32 = [k |-> "fin", s |-> 0, m |-> 0, e |-> 0]
            /\ h16 = 32768 => f32 = [k |-> "fin", s |-> 1, m |-> 0, e |-> 0]
            /\ h16 = 15360 => f32 = [k |-> "fin", s |-> 0, m |-> 1, e |-> 0]
            /\ h16 = 1 => f32 = [k |-> "fin", s |-> 0, m |-> 1, e |-> -24]
            /\ h16 = 31744 => f32 = [k |-> "inf", s |-> 0, m |-> 0, e |-> 0]
            /\ h16 = 64512 => f32 = [k |-> "inf", s |-> 1, m |-> 0, e |-> 0]
            /\ hpc = "ret2" => f32b = f32

\* a normal pattern with a non-zero mantissa (0x3555) decoded twice
C8_Witness ==
    /\ hpc = "ret2"
    /\ h16 = 13653
    /\ f32 = [k |-> "fin", s |-> 0, m |-> 1365, e |-> -12]

\* C2: read_leica_lut on a buffer shorter than 8 * N^3 bytes does not return
\* in the form of a full read, the plain pair (samples, size): its result
\* carries an explicit indication of decoded versus expected samples.
C2_ShortReadIsSignalled ==
    (ret.status = "returned" /\ Len(data_files[ri - 1].data) < 8 * Cube(lut_size))
        => Len(ret.value) # 2

\* C9: every CUBE file the raw pipeline writes is a title line, a generator
\* comment, a LUT_3D_SIZE line with N, then exactly N^3 data lines.
C9_DataLinesMatchDeclaredSize ==
    \A i \in 1..Len(cube_out) :
        LET L == cube_out[i].lines
        IN  /\ Len(L) >= 3
            /\ L[1].kind = "TITLE"
            /\ L[2].kind = "comment"
            /\ L[3].kind = "LUT_3D_SIZE"
            /\ \A j \in 4..Len(L) : L[j].kind = "data"
            /\ Len(L) - 3 = Cube(L[3].n)

\* the clamp as the claim states it
Clamped01(x) ==
    IF FLt(x, PosZero) THEN PosZero ELSE IF FLt(FOne, x) THEN FOne ELSE x

\* two written numbers are the same number (0.000000 and -0.000000 are)
SameNumber(w, v) ==
    w.txt = v.txt /\ w.micro = v.micro /\ (w.micro # 0 => w.neg = v.neg)

\* C10: each data line of a written CUBE file holds exactly the three colour
\* components of its sample, each clamped to [0,1] before the 6-digit
\* formatting: below 0 gives 0, above 1 gives 1, inside the range the value
\* itself; the alpha component is not written.
C10_ComponentsClamped ==
    (ret.status = "returned" /\ cube_out # << >>) =>
        LET samples == ret.value[1]
            L == cube_out[Len(cube_out)].lines
        IN  /\ Len(L) = 3 + Len(samples)
            /\ \A i \in 1..Len(samples) :
                /\ L[3 + i].kind = "data"
                /\ Len(L[3 + i].c) = 3
                /\ \A j \in 1..3 :
                    LET w == L[3 + i].c[j]
                        x == samples[i][j]
                    IN  /\ w.txt = "fixed"
                        /\ w.micro \in 0..1000000
                        /\ SameNumber(w, Format6(Clamped01(x)))
                        /\ FLt(x, PosZero) => w.micro = 0
                        /\ FLt(FOne, x) => w.micro = 1000000

\* a file written from the mixed pattern: -1.0 and 2.0 in the first sample,
\* +inf and -inf in the second, alpha -0.0 dropped
C10_Witness ==
    /\ ret.status = "returned"
    /\ cube_out # << >>
    /\ Len(ret.value[1]) >= 2
    /\ ret.value[1][1][2] = Fin(1, 1, 0)
    /\ ret.value[1][1][3] = Fin(0, 1, 1)
    /\ ret.value[1][1][4] = NegZero
    /\ ret.value[1][2][1] = Inf(0)
    /\ ret.value[1][2][2] = Inf(1)
    /\ cube_out[Len(cube_out)].lines[4].c[2].micro = 0
    /\ cube_out[Len(cube_out)].lines[5].c[1].micro = 1000000

\* the LUT_3D_SIZE lines of a text that are followed by an integer
SizeLine(raw) == startswith(strip(raw), << "L", "U", "T", "_", "3", "D", "_", "S", "I", "Z", "E" >>)
DeclaringLines(text) ==
    { i \in 1..Len(text) :
        /\ SizeLine(text[i])
        /\ Len(split(strip(text[i]))) >= 2
        /\ py_int(split(strip(text[i]))[2]).ok }
\* every LUT_3D_SIZE line with a value has an integer value
CleanSizeLines(text) ==
    \A i \in 1..Len(text) :
        (SizeLine(text[i]) /\ Len(split(strip(text[i]))) >= 2) => i \in DeclaringLines(text)
Max(S) == CHOOSE x \in S : \A y \in S : y <= x
Declared(text) == py_int(split(strip(text[Max(DeclaringLines(text))]))[2]).v

\* C3: with a LUT_3D_SIZE line declaring the integer D (the last one), the
\* conversion succeeds only if the number of accepted data lines is D^3, fails
\* with a size mismatch otherwise, and keeps D as the size.
C3_DeclaredSizeDecides ==
    (/\ cpc = "done"
     /\ cube_in.readable /\ cube_in.writable
     /\ CleanSizeLines(cube_in.text)
     /\ DeclaringLines(cube_in.text) # {})
    => LET D == Declared(cube_in.text)
       IN  /\ conv.outcome = "True" => (conv.count = Cube(D) /\ conv.size = D)
           /\ conv.count # Cube(D) =>
                  (conv.outcome = "False" /\ conv.err \in {"mismatch", "undetermined"})

NoSizeLine(text) == \A i \in 1..Len(text) : ~SizeLine(text[i])
IsCube(k) == \E n \in 0..k : Cube(n) = k

\* C4: with no LUT_3D_SIZE line and k accepted data lines, the size resolves
\* to the n with n^3 = k when there is one (27 gives 3), the conversion fails
\* with a size mismatch when there is none (26 fails), and no other n is ever
\* resolved.
C4_InferredSizeIsExactCubeRoot ==
    (cpc = "done" /\ cube_in.readable /\ NoSizeLine(cube_in.text)) =>
        LET k == conv.count
        IN  /\ IsCube(k) =>
                /\ Cube(conv.size) = k
                /\ conv.err \notin {"mismatch", "undetermined"}
                /\ cube_in.writable => conv.outcome = "True"
            /\ ~IsCube(k) =>
                /\ conv.outcome = "False"
                /\ conv.err \in {"mismatch", "undetermined"}
                /\ ~conv.written
            /\ conv.outcome = "True" => Cube(conv.size) = k
            /\ k = 27 => conv.size = 3
            /\ k = 26 => conv.outcome = "False"

\* 27 data lines and no size line, converted with edge length 3
C4_Witness ==
    /\ cpc = "done"
    /\ cube_in.readable
    /\ NoSizeLine(cube_in.text)
    /\ conv.count = 27
    /\ conv.size = 3
    /\ conv.outcome = "True"

\* little-endian value of a byte sequence
RECURSIVE LittleEndian(_)
LittleEndian(b) == IF b = << >> THEN 0 ELSE Head(b) + 256 * LittleEndian(Tail(b))

\* the float a little-endian IEEE-754 single holds
FloatOfBytes(b) ==
    LET s == b[4] \div 128
        biased == (b[4] % 128) * 2 + b[3] \div 128
        frac == (b[3] % 128) * 65536 + b[2] * 256 + b[1]
    IN  IF biased = 255 THEN (IF frac = 0 THEN Inf(s) ELSE NaN)
        ELSE IF biased = 0 THEN Fin(s, frac, -149)
        ELSE Fin(s, 8388608 + frac, biased - 150)

\* C5: a binary file written on success has an edge length N >= 1 in its
\* header and a data section of exactly N^3 triples.
C5_WrittenEdgeIsPositive ==
    (cpc = "done" /\ conv.written) =>
        LET N == LittleEndian(SubSeq(conv.blob, 13, 16))
        IN  /\ N >= 1
            /\ Len(conv.blob) - 64 = 12 * Cube(N)

C1_BatchReachesReport ==
    /\ mpc # "crashed"
    /\ mpc = "done" =>
           /\ report.printed
           /\ mi = Len(cube_files) + 1
           /\ report.found = Len(cube_files)
           /\ report.converted = Cardinality(bin_files)

====
